---------------------------- MODULE Spec2Model ----------------------------
(***************************************************************************)
(* Model of frontend/app/src/data/amount-formatter.ts: AmountFormatter     *)
(* .format and getBnFormat, together with the BigNumber operations the     *)
(* formatter calls (abs, gte, dividedBy, toFormat).                        *)
(*                                                                         *)
(* A BigNumber is a record [s, c, e]: sign s (1 or -1), coefficient c (a   *)
(* sequence of decimal digits, first digit non-zero except for zero, no    *)
(* trailing zeros) and exponent e of the first digit, so that the value is *)
(* s * c[1].c[2]c[3]... * 10^e.  Strings are sequences of one-character    *)
(* strings.  An optional argument is <<>> when omitted and <<v>> when      *)
(* given.                                                                  *)
(***************************************************************************)
EXTENDS Integers, Sequences, FiniteSets, TLC

VARIABLES op, amount, precision, thousandSeparator, decimalSeparator,
          roundingMode, abbreviateNumber, pc, result, bnFormat, table

vars == <<op, amount, precision, thousandSeparator, decimalSeparator,
          roundingMode, abbreviateNumber, pc, result, bnFormat, table>>

(***************************************************************************)
(* Bounds of the explored inputs.                                          *)
(***************************************************************************)
MaxPrecision == 2
MaxShort == 2
LongLen == 24
MaxExp == 15
MaxFracShift == 2

(***************************************************************************)
(* Optional arguments and strings.                                         *)
(***************************************************************************)
Undefined == <<>>

Given(v) == <<v>>

DigitChars == <<"0", "1", "2", "3", "4", "5", "6", "7", "8", "9">>

DigitChar(d) == DigitChars[d + 1]

IsDigitChar(ch) == \E d \in 0..9 : DigitChars[d + 1] = ch

Chars(ds) == [i \in 1..Len(ds) |-> DigitChar(ds[i])]

Repeat(d, n) == [i \in 1..n |-> d]

(***************************************************************************)
(* BigNumber values.                                                       *)
(***************************************************************************)
Num(s, c, e) == [s |-> s, c |-> c, e |-> e]

IsZero(x) == x.c[1] = 0

RECURSIVE StripTrailingZeros(_)
StripTrailingZeros(c) ==
  IF Len(c) > 1 /\ c[Len(c)] = 0
    THEN StripTrailingZeros(SubSeq(c, 1, Len(c) - 1))
    ELSE c

\* new BigNumber(10 ** digitNum)
Pow10(k) == Num(1, <<1>>, k)

\* BigNumber.prototype.abs
abs(x) == [x EXCEPT !.s = 1]

RECURSIVE CompareDigits(_, _, _)
CompareDigits(xc, yc, i) ==
  IF i > Len(xc) \/ i > Len(yc)
    THEN (IF Len(xc) = Len(yc) THEN 0 ELSE IF Len(xc) > Len(yc) THEN 1 ELSE -1)
    ELSE IF xc[i] # yc[i]
      THEN (IF xc[i] > yc[i] THEN 1 ELSE -1)
      ELSE CompareDigits(xc, yc, i + 1)

\* bignumber.js compare(x, y) for finite x and y: zeros, then signs, then
\* exponents, then coefficients.
compare(x, y) ==
  IF IsZero(x) \/ IsZero(y)
    THEN (IF IsZero(x) THEN (IF IsZero(y) THEN 0 ELSE -y.s) ELSE x.s)
    ELSE IF x.s # y.s THEN x.s
    ELSE IF x.e # y.e THEN (IF x.e > y.e THEN x.s ELSE -x.s)
    ELSE x.s * CompareDigits(x.c, y.c, 1)

\* BigNumber.prototype.gte
gte(x, y) == compare(x, y) \in {0, 1}

(***************************************************************************)
(* Rounding.  The rounding modes of bignumber.js.                          *)
(***************************************************************************)
ROUND_UP == 0
ROUND_DOWN == 1
ROUND_CEIL == 2
ROUND_FLOOR == 3
ROUND_HALF_UP == 4
ROUND_HALF_DOWN == 5
ROUND_HALF_EVEN == 6
ROUND_HALF_CEIL == 7
ROUND_HALF_FLOOR == 8

\* The configuration dividedBy rounds its quotient with (bignumber.js
\* defaults).
DECIMAL_PLACES == 20
ROUNDING_MODE == 4

\* Whether the kept digits are incremented: rd is the first discarded digit,
\* more says that a non-zero digit follows it, prev is the last kept digit.
RoundsUp(rm, s, rd, more, prev) ==
  IF rm < 4
    THEN (rd # 0 \/ more) /\ (rm = ROUND_UP \/ rm = (IF s < 0 THEN ROUND_FLOOR ELSE ROUND_CEIL))
    ELSE \/ rd > 5
         \/ /\ rd = 5
            /\ \/ rm = ROUND_HALF_UP
               \/ more
               \/ rm = ROUND_HALF_EVEN /\ prev % 2 = 1
               \/ rm = (IF s < 0 THEN ROUND_HALF_FLOOR ELSE ROUND_HALF_CEIL)

\* c + 1 on a digit sequence; the result is one digit longer when c is all 9.
RECURSIVE Increment(_)
Increment(c) ==
  IF Len(c) = 0 THEN <<1>>
  ELSE IF c[Len(c)] < 9 THEN [c EXCEPT ![Len(c)] = c[Len(c)] + 1]
  ELSE Increment(SubSeq(c, 1, Len(c) - 1)) \o <<0>>

\* The kept digits after rounding: incremented or not, trailing zeros
\* dropped, the exponent one higher when the increment carried out.
Rounded(x, sd, inc) ==
  Num(x.s, StripTrailingZeros(inc), IF Len(inc) > sd THEN x.e + 1 ELSE x.e)

\* Rounding when at least one digit is kept (sd >= 1) and one is discarded.
RoundKept(x, sd, rm) ==
  Rounded(x, sd,
          IF RoundsUp(rm, x.s, x.c[sd + 1], Len(x.c) > sd + 1, x.c[sd])
            THEN Increment(SubSeq(x.c, 1, sd))
            ELSE SubSeq(x.c, 1, sd))

\* Rounding when no digit is kept (sd < 1): the result is zero or one unit
\* of the last decimal place.
RoundNone(x, sd, dp, rm) ==
  IF RoundsUp(rm, x.s, IF sd < 0 THEN 0 ELSE x.c[1], sd < 0 \/ Len(x.c) > 1, 0)
    THEN Num(x.s, <<1>>, -dp)
    ELSE Num(x.s, <<0>>, 0)

\* bignumber.js round(x, sd, rm) with sd = dp + x.e + 1: x rounded to dp
\* decimal places in rounding mode rm.
round(x, dp, rm) ==
  IF IsZero(x) \/ x.e + 1 + dp >= Len(x.c) THEN x
  ELSE IF x.e + 1 + dp < 1 THEN RoundNone(x, x.e + 1 + dp, dp, rm)
  ELSE RoundKept(x, x.e + 1 + dp, rm)

\* BigNumber.prototype.dividedBy for a divisor that is a power of ten (the
\* only divisors format passes): the digits are kept, the exponent drops,
\* and the quotient is rounded to DECIMAL_PLACES with ROUNDING_MODE.
dividedBy(x, y) ==
  IF IsZero(x) THEN x
  ELSE round(Num(x.s * y.s, x.c, x.e - y.e), DECIMAL_PLACES, ROUNDING_MODE)

(***************************************************************************)
(* Rendering.  A call returns a string or throws.                          *)
(***************************************************************************)
NoError == [arg |-> "", value |-> 0]

Return(str) == [kind |-> "return", str |-> str, err |-> NoError]

Throw(arg, value) ==
  [kind |-> "throw", str |-> <<>>, err |-> [arg |-> arg, value |-> value]]

MAX == 1000000000

\* The argument checks of toFixed (intCheck(dp, 0, MAX)) and of format
\* (intCheck(rm, 0, 8)), in that order.
ArgumentError(dp, rm) ==
  IF dp < 0 \/ dp > MAX THEN Throw("dp", dp)
  ELSE IF rm < 0 \/ rm > 8 THEN Throw("rm", rm)
  ELSE Return(<<>>)

\* Digit i of the coefficient of y, zero outside it.
DigitAt(y, i) == IF i >= 1 /\ i <= Len(y.c) THEN y.c[i] ELSE 0

\* The fixed-point notation of the rounded value y with dp decimals.
FixedPoint(y, dp) ==
  Chars(IF y.e < 0 THEN <<0>> ELSE [i \in 1..(y.e + 1) |-> DigitAt(y, i)])
    \o (IF dp > 0
          THEN <<".">> \o Chars([j \in 1..dp |-> DigitAt(y, y.e + 1 + j)])
          ELSE <<>>)

\* BigNumber.prototype.toFixed(dp, rm) once its arguments are checked.  The
\* sign is that of the receiver before rounding (c0 is read before round),
\* so a negative value that rounds to zero renders as "-0.00".
toFixed(x, dp, rm) ==
  (IF x.s < 0 /\ ~IsZero(x) THEN <<"-">> ELSE <<>>)
    \o FixedPoint(round(x, dp, rm), dp)

\* Index of the first "." of str, or Len(str) + 1.
RECURSIVE IndexOfPoint(_, _)
IndexOfPoint(str, i) ==
  IF i > Len(str) \/ str[i] = "." THEN i ELSE IndexOfPoint(str, i + 1)

\* The grouping loop of toFormat: groups of g1 digits from index i on, each
\* preceded by the group separator.
RECURSIVE GroupFrom(_, _, _, _)
GroupFrom(intDigits, i, g1, groupSeparator) ==
  IF i >= Len(intDigits) THEN <<>>
  ELSE groupSeparator
         \o SubSeq(intDigits, i + 1, IF i + g1 <= Len(intDigits) THEN i + g1 ELSE Len(intDigits))
         \o GroupFrom(intDigits, i + g1, g1, groupSeparator)

\* intDigits.substr(0, i) with i = len % g1 || g1, then the grouping loop.
Grouped(intDigits, first, g1, groupSeparator) ==
  SubSeq(intDigits, 1, first) \o GroupFrom(intDigits, first, g1, groupSeparator)

\* The integer part of toFormat: arr0 is the part of the toFixed string
\* before the point, intDigits the same without the sign of a negative
\* receiver.
IntPart(arr0, intDigits, isNeg, fmt) ==
  IF fmt.groupSize > 0 /\ Len(intDigits) > 0
    THEN (IF isNeg THEN <<"-">> ELSE <<>>)
         \o Grouped(intDigits,
                    IF Len(intDigits) % fmt.groupSize = 0
                      THEN fmt.groupSize
                      ELSE Len(intDigits) % fmt.groupSize,
                    fmt.groupSize, fmt.groupSeparator)
    ELSE arr0

\* intPart + decimalSeparator + fractionPart, or intPart alone.
Joined(arr0, fractionPart, isNeg, fmt) ==
  IntPart(arr0, IF isNeg THEN SubSeq(arr0, 2, Len(arr0)) ELSE arr0, isNeg, fmt)
    \o (IF Len(fractionPart) > 0 THEN fmt.decimalSeparator \o fractionPart
        ELSE <<>>)

\* str.split('.') at index point.
SplitAt(str, point, isNeg, fmt) ==
  Joined(SubSeq(str, 1, point - 1), SubSeq(str, point + 1, Len(str)), isNeg, fmt)

\* The separators applied to the toFixed string str of a receiver.
Formatted(str, isNeg, fmt) == SplitAt(str, IndexOfPoint(str, 1), isNeg, fmt)

\* BigNumber.prototype.toFormat(dp, rm, format).
toFormat(x, dp, rm, fmt) ==
  IF dp < 0 \/ dp > MAX \/ rm < 0 \/ rm > 8 THEN ArgumentError(dp, rm)
  ELSE Return(Formatted(toFixed(x, dp, rm), x.s < 0, fmt))

(***************************************************************************)
(* amount-formatter.ts                                                     *)
(***************************************************************************)
\* Mutants of abbreviationList: the rules in ascending order, and a rule
\* below one thousand added.
abbreviationListAscending == << <<3, "k">>, <<6, "M">>, <<9, "B">>, <<12, "T">> >>

abbreviationListWithUnits ==
  << <<12, "T">>, <<9, "B">>, <<6, "M">>, <<3, "k">>, <<0, "u">> >>

abbreviationList == << <<12, "T">>, <<9, "B">>, <<6, "M">>, <<3, "k">> >>

\* Mutants of getBnFormat: the separators swapped, and groups of four.
getBnFormatSwapped(ts, ds) ==
  [groupSize |-> 3, groupSeparator |-> ds, decimalSeparator |-> ts]

getBnFormatGroupsOfFour(ts, ds) ==
  [groupSize |-> 4, groupSeparator |-> ts, decimalSeparator |-> ds]

getBnFormat(ts, ds) ==
  [groupSize |-> 3, groupSeparator |-> ts, decimalSeparator |-> ds]

\* Mutant of usedRoundingMode: `roundingMode || BigNumber.ROUND_DOWN`.
usedRoundingModeFalsy(rm) ==
  IF rm = Undefined \/ rm[1] = 0 THEN ROUND_DOWN ELSE rm[1]

\* roundingMode === undefined ? BigNumber.ROUND_DOWN : roundingMode
usedRoundingMode(rm) == IF rm = Undefined THEN ROUND_DOWN ELSE rm[1]

\* Mutant of Truthy: abbreviation unless switched off.
TruthyByDefault(flag) == flag = Undefined \/ flag[1]

\* The truthiness test of `if (abbreviateNumber)`.
Truthy(flag) == flag # Undefined /\ flag[1]

\* Array.prototype.find: the first element of list, from index i on, whose
\* exponent the absolute amount reaches; <<>> when there is none.
RECURSIVE find(_, _, _)
find(list, x, i) ==
  IF i > Len(list) THEN <<>>
  ELSE IF gte(abs(x), Pow10(list[i][1])) THEN list[i]
  ELSE find(list, x, i + 1)

usedAbbreviation(x) == find(abbreviationList, x, 1)

\* Mutants of WithSuffix: no space before the suffix, and a throw of
\* toFormat swallowed.
WithSuffixNoSpace(r, suffix) ==
  IF r.kind = "throw" THEN r ELSE Return(r.str \o <<suffix>>)

WithSuffixSwallow(r, suffix) == Return(r.str \o <<" ">> \o <<suffix>>)

\* The template literal `${...toFormat(...)} ${usedAbbreviation[1]}`: a
\* throw of toFormat leaves the call before the string is built.
WithSuffix(r, suffix) ==
  IF r.kind = "throw" THEN r ELSE Return(r.str \o <<" ">> \o <<suffix>>)

\* The two returns of format: rule is the abbreviation found, <<>> when
\* abbreviateNumber is falsy or find returned undefined.
Rendered(a, p, rm, fmt, rule) ==
  IF rule # <<>>
    THEN WithSuffix(toFormat(dividedBy(a, Pow10(rule[1])), p, rm, fmt), rule[2])
    ELSE toFormat(a, p, rm, fmt)

format(a, p, ts, ds, rm, abbr) ==
  Rendered(a, p, usedRoundingMode(rm), getBnFormat(ts, ds),
           IF Truthy(abbr) THEN usedAbbreviation(a) ELSE <<>>)

(***************************************************************************)
(* The explored inputs.                                                    *)
(***************************************************************************)
FamilyDigits == {1, 5, 9}

CoefficientLengths == (1..MaxShort) \cup {LongLen}

ScenarioAmounts ==
  { Num(1, <<0>>, 0),                              \* 0
    Num(1, <<1, 2, 3, 4, 5, 6, 7>>, 6),            \* 1234567
    Num(1, <<1, 2, 3, 4, 5, 6, 7, 8, 9>>, 6),      \* 1234567.89
    Num(1, <<9, 9, 9>>, 2),                        \* 999
    Num(1, <<1, 9, 9, 9>>, 0),                     \* 1.999
    Num(1, <<2, 5>>, 0),                           \* 2.5
    Num(-1, <<1, 2, 5>>, -1),                      \* -0.125
    Num(-1, <<9, 9, 9, 9, 9, 5>>, 5) }             \* -999999.5

Amounts ==
  ScenarioAmounts \cup
  { Num(s, Repeat(d, n), e) :
      s \in {1, -1}, d \in FamilyDigits, n \in CoefficientLengths,
      e \in (-MaxFracShift)..MaxExp }

Precisions == (-1)..MaxPrecision

Separators ==
  { << <<",">>, <<".">> >>, << <<".">>, <<",">> >>,
    << <<>>, <<".">> >>, << <<" ">>, <<" ">> >> }

SeparatorStrings == { <<",">>, <<".">>, <<>>, <<" ">> }

RoundingModes == {Undefined} \cup { Given(m) : m \in 0..9 }

Flags == {Undefined, Given(FALSE), Given(TRUE)}

NoResult == Return(<<>>)

NoFormat == getBnFormat(<<>>, <<>>)

Init ==
  /\ pc = "ready"
  /\ result = NoResult
  /\ bnFormat = NoFormat
  /\ table = abbreviationList
  /\ \/ /\ op = "format"
        /\ amount \in Amounts
        /\ precision \in Precisions
        /\ \E sep \in Separators :
              thousandSeparator = sep[1] /\ decimalSeparator = sep[2]
        /\ roundingMode \in RoundingModes
        /\ abbreviateNumber \in Flags
     \/ /\ op = "getBnFormat"
        /\ amount = Num(1, <<0>>, 0)
        /\ precision = 0
        /\ thousandSeparator \in SeparatorStrings
        /\ decimalSeparator \in SeparatorStrings
        /\ roundingMode = Undefined
        /\ abbreviateNumber = Undefined

\* displayAmountFormatter.format(amount, precision, thousandSeparator,
\* decimalSeparator, roundingMode, abbreviateNumber)
Format ==
  /\ pc = "ready"
  /\ op = "format"
  /\ result' = format(amount, precision, thousandSeparator, decimalSeparator,
                      roundingMode, abbreviateNumber)
  /\ pc' = "done"
  /\ UNCHANGED <<op, amount, precision, thousandSeparator, decimalSeparator,
                 roundingMode, abbreviateNumber, bnFormat, table>>

\* getBnFormat(thousandSeparator, decimalSeparator)
GetBnFormat ==
  /\ pc = "ready"
  /\ op = "getBnFormat"
  /\ bnFormat' = getBnFormat(thousandSeparator, decimalSeparator)
  /\ pc' = "done"
  /\ UNCHANGED <<op, amount, precision, thousandSeparator, decimalSeparator,
                 roundingMode, abbreviateNumber, result, table>>

Next == Format \/ GetBnFormat

Spec == Init /\ [][Next]_vars

(***************************************************************************)
(* Properties.  The definitions below restate what the formatter is said   *)
(* to do, without using format itself.                                     *)
(***************************************************************************)
Done == pc = "done" /\ op = "format"

Returned == Done /\ result.kind = "return"

Abbreviating == abbreviateNumber = Given(TRUE)

\* abs(x) >= 10^k, read off the normalised exponent.
AbsAtLeast(x, k) == ~IsZero(x) /\ x.e >= k

\* The rule the magnitude of x names, <<>> below one thousand.
ExpectedRule(x) ==
  IF AbsAtLeast(x, 12) THEN <<12, "T">>
  ELSE IF AbsAtLeast(x, 9) THEN <<9, "B">>
  ELSE IF AbsAtLeast(x, 6) THEN <<6, "M">>
  ELSE IF AbsAtLeast(x, 3) THEN <<3, "k">>
  ELSE <<>>

EndsWith(str, tail) ==
  /\ Len(str) >= Len(tail)
  /\ SubSeq(str, Len(str) - Len(tail) + 1, Len(str)) = tail

EndsInDigit(str) == Len(str) > 0 /\ IsDigitChar(str[Len(str)])

\* The string without its " <suffix>", when it has one.
NumericPart(str) ==
  IF EndsInDigit(str) \/ Len(str) < 2 THEN str ELSE SubSeq(str, 1, Len(str) - 2)

EffectiveMode == IF roundingMode = Undefined THEN 1 ELSE roundingMode[1]

SeparatorConfig ==
  [groupSize |-> 3, groupSeparator |-> thousandSeparator,
   decimalSeparator |-> decimalSeparator]

\* The rendering of x in rounding mode m with the caller's precision and
\* separators.
Rendering(x, m) == toFormat(x, precision, m, SeparatorConfig)

\* The value handed to the renderer: the amount, or its quotient by the
\* power of ten of the rule its magnitude names.
Scaled ==
  IF Abbreviating /\ ExpectedRule(amount) # <<>>
    THEN dividedBy(amount, Pow10(ExpectedRule(amount)[1]))
    ELSE amount

\* The string expected in rounding mode m.
Expected(m) ==
  IF Abbreviating /\ ExpectedRule(amount) # <<>>
    THEN Rendering(Scaled, m).str \o <<" ", ExpectedRule(amount)[2]>>
    ELSE Rendering(Scaled, m).str

ScenarioStandard ==
  /\ thousandSeparator = <<",">>
  /\ decimalSeparator = <<".">>
  /\ roundingMode = Undefined

\* C1: with abbreviateNumber = true the suffix follows the absolute value of
\* the amount alone, and the largest magnitude reached wins: " T" from
\* 10^12, " B" from 10^9, " M" from 10^6, " k" from 10^3, for positive and
\* negative amounts alike.
C1_LargestMagnitudeWins ==
  (Returned /\ Abbreviating /\ AbsAtLeast(amount, 3)) =>
    EndsWith(result.str, <<" ", ExpectedRule(amount)[2]>>)

C1_Witness ==
  /\ Returned /\ Abbreviating
  /\ amount.s = -1 /\ amount.e = 15
  /\ EndsWith(result.str, <<" ", "T">>)

\* C2: below one thousand in absolute value (zero and negative amounts
\* included) abbreviateNumber = true gives exactly what an absent or false
\* abbreviateNumber gives, for every precision, separators and rounding
\* mode: no suffix and no division; format(999, 2, ",", ".", undefined,
\* true) = "999.00".
C2_BelowThousandUnabbreviated ==
  (Done /\ Abbreviating /\ ~AbsAtLeast(amount, 3)) =>
    /\ result = format(amount, precision, thousandSeparator, decimalSeparator,
                       roundingMode, Undefined)
    /\ result = format(amount, precision, thousandSeparator, decimalSeparator,
                       roundingMode, Given(FALSE))
    /\ result = Rendering(amount, EffectiveMode)
    /\ result.kind = "return" => EndsInDigit(result.str)
    /\ (amount = Num(1, <<9, 9, 9>>, 2) /\ precision = 2 /\ ScenarioStandard)
         => result.str = <<"9", "9", "9", ".", "0", "0">>

C2_Witness ==
  /\ Returned /\ Abbreviating /\ ScenarioStandard
  /\ amount = Num(1, <<9, 9, 9>>, 2) /\ precision = 2
  /\ result.str = <<"9", "9", "9", ".", "0", "0">>

DigitsOf(str) == SelectSeq(str, IsDigitChar)

\* The exact quotient of x by 10^k.
ExactQuotient(x, k) == Num(x.s, x.c, x.e - k)

\* The exact value to display: the amount, or its exact quotient.
ExactScaled ==
  IF Abbreviating /\ ExpectedRule(amount) # <<>>
    THEN ExactQuotient(amount, ExpectedRule(amount)[1])
    ELSE amount

\* The digits of x with everything beyond dp decimal places discarded: the
\* integer digits, then dp fraction digits.
TruncatedDigits(x, dp) ==
  LET n == Len(x.c)
      digit(i) == IF i >= 1 /\ i <= n THEN x.c[i] ELSE 0
  IN (IF x.e < 0 THEN <<0>> ELSE [i \in 1..(x.e + 1) |-> digit(i)])
       \o [j \in 1..dp |-> digit(x.e + 1 + j)]

\* C4: with roundingMode omitted format truncates toward zero: the value
\* shown is the amount (the scaled quotient when abbreviated) with the
\* digits beyond precision discarded; 1.999 with precision 1 gives "1.9".
C4_DefaultTruncates ==
  (Returned /\ roundingMode = Undefined) =>
    /\ DigitsOf(NumericPart(result.str))
         = Chars(TruncatedDigits(ExactScaled, precision))
    /\ (amount = Num(1, <<1, 9, 9, 9>>, 0) /\ precision = 1 /\ ScenarioStandard)
         => NumericPart(result.str) = <<"1", ".", "9">>

\* C5: with abbreviateNumber absent or false the amount itself is rendered,
\* whatever its magnitude, with the given precision, the effective rounding
\* mode and the separators, and nothing is appended;
\* format(1234567.89, 2, ",", ".") = "1,234,567.89".
C5_NoAbbreviationByDefault ==
  (Done /\ ~Abbreviating) =>
    /\ result = Rendering(amount, EffectiveMode)
    /\ result.kind = "return" => EndsInDigit(result.str)
    /\ (amount = Num(1, <<1, 2, 3, 4, 5, 6, 7, 8, 9>>, 6) /\ precision = 2
          /\ ScenarioStandard)
         => result.str = <<"1", ",", "2", "3", "4", ",", "5", "6", "7",
                           ".", "8", "9">>

C5_Witness ==
  /\ Returned /\ abbreviateNumber = Undefined
  /\ amount.e >= 12
  /\ EndsInDigit(result.str)
  /\ Len(DigitsOf(result.str)) >= 13

\* The shape of a rendered number: an optional "-", k integer digits in
\* groups of three counted from the right with ts between the groups, and,
\* when p > 0, ds followed by p digits.
WellGrouped(str, ts, ds, p) ==
  \E neg \in {0, 1}, k \in 1..Len(str) :
    LET unit    == 3 + Len(ts)
        intLen  == k + ((k - 1) \div 3) * Len(ts)
        fracLen == IF p > 0 THEN Len(ds) + p ELSE 0
    IN /\ Len(str) = neg + intLen + fracLen
       /\ neg = 1 => str[1] = "-"
       /\ \A j \in 1..intLen :
            LET r == (intLen - j) % unit
            IN IF r < 3 THEN IsDigitChar(str[neg + j])
               ELSE str[neg + j] = ts[Len(ts) - (r - 3)]
       /\ p > 0 =>
            /\ SubSeq(str, neg + intLen + 1, neg + intLen + Len(ds)) = ds
            /\ \A j \in 1..p : IsDigitChar(str[neg + intLen + Len(ds) + j])

\* C6: the numeric part of the returned string has exactly `precision`
\* digits after the decimal separator, trailing zeros included, and its
\* integer part is in groups of exactly three digits counted from the
\* right, the leftmost group alone possibly shorter.
C6_PrecisionDigitsAndGroupsOfThree ==
  Returned =>
    WellGrouped(NumericPart(result.str), thousandSeparator, decimalSeparator,
                precision)

C6_Witness ==
  /\ Returned /\ ~Abbreviating
  /\ amount.e >= 6 /\ precision = 2 /\ thousandSeparator = <<",">>
  /\ WellGrouped(result.str, thousandSeparator, decimalSeparator, precision)

\* C7: getBnFormat returns groupSize 3, the thousand separator as group
\* separator and the decimal separator, both unchanged and unvalidated,
\* also when they are equal or empty; getBnFormat(".", ",") =
\* { groupSize: 3, groupSeparator: ".", decimalSeparator: "," }.
C7_SeparatorConfig ==
  (pc = "done" /\ op = "getBnFormat") =>
    /\ bnFormat.groupSize = 3
    /\ bnFormat.groupSeparator = thousandSeparator
    /\ bnFormat.decimalSeparator = decimalSeparator
    /\ DOMAIN bnFormat = {"groupSize", "groupSeparator", "decimalSeparator"}

C7_Witness ==
  /\ pc = "done" /\ op = "getBnFormat"
  /\ thousandSeparator = <<".">> /\ decimalSeparator = <<",">>
  /\ bnFormat = [groupSize |-> 3, groupSeparator |-> <<".">>,
                 decimalSeparator |-> <<",">>]

\* The rendering primitive rejects the precision or the rounding mode.
PrimitiveFails == precision < 0 \/ EffectiveMode \notin 0..8

\* C8: format fails exactly when the rendering primitive rejects the
\* precision or the rounding mode; the primitive's error is then propagated
\* unchanged, no string is returned and the abbreviation table is as it was,
\* on the abbreviated and on the unabbreviated path.
C8_FailsOnlyWithPrimitive ==
  Done =>
    /\ result.kind = "throw" <=> PrimitiveFails
    /\ result.kind = "throw" =>
         /\ result = ArgumentError(precision, EffectiveMode)
         /\ result.str = <<>>
    /\ table = abbreviationList

C8_Witness ==
  /\ Done /\ Abbreviating /\ AbsAtLeast(amount, 3)
  /\ result.kind = "throw"
  /\ precision >= 0

\* C9: the rounding mode used is the caller's whenever one is given, also
\* when it is 0 (ROUND_UP), and ROUND_DOWN only when none is given, on the
\* abbreviated and on the unabbreviated path.
C9_GivenRoundingModeUsed ==
  (Returned /\ roundingMode # Undefined) =>
    result.str = Expected(roundingMode[1])

C9_Witness ==
  /\ Returned /\ Abbreviating /\ AbsAtLeast(amount, 3)
  /\ roundingMode = Given(0)
  /\ result.str = Expected(ROUND_UP)
  /\ result.str # Expected(ROUND_DOWN)

\* Number of characters of the integer part of a rendered number.
IntegerPartLength(str) ==
  Len(str) - (IF str[1] = "-" THEN 1 ELSE 0)
           - (IF precision > 0 THEN Len(decimalSeparator) + precision ELSE 0)

LeadingDigit(str) == IF str[1] = "-" THEN str[2] ELSE str[1]

\* C10: with abbreviateNumber = true and roundingMode omitted, an amount
\* with 10^3 <= abs(amount) < 10^15 is shown with an integer part of one to
\* three digits, the first not zero, and so without thousand separator.
C10_ScaledBelowThousand ==
  (Returned /\ Abbreviating /\ roundingMode = Undefined
     /\ AbsAtLeast(amount, 3) /\ ~AbsAtLeast(amount, 15)) =>
    /\ IntegerPartLength(NumericPart(result.str)) \in 1..3
    /\ LeadingDigit(NumericPart(result.str)) # "0"

=============================================================================
